---------------------------- MODULE Spec2Model ----------------------------
(***************************************************************************)
(* A model of the Allow2Automate Epic Games plugin: the plugin object      *)
(* (state, event subscriptions and IPC handlers) and the EpicMonitor       *)
(* service, together with the agent service they push policies to.         *)
(*                                                                         *)
(* A handler is one action: handlers run one at a time, and a handler that *)
(* awaits runs to its end before the next event is delivered.  (Only in    *)
(* SpecInterleave are linkAgent and the stateChange handler followed from  *)
(* await to await, `pending` holding where each is suspended.)  The calls a *)
(* handler makes on the agent service are left in `issued`, each with its  *)
(* outcome, and the handler's arguments and result in `lastEvent`.  A call *)
(* on the agent service may fail; which calls of a handler fail is an      *)
(* input of its action.                                                    *)
(* The agent registry hands out one record object per agent, so a record   *)
(* is identified with its agent id; `childOf` is the record's childId.     *)
(***************************************************************************)
EXTENDS Integers, Sequences, FiniteSets, TLC

VARIABLES
    phase,          \* "constructed", "loaded", "failed" (onLoad returned early or rejected), "unloaded"
    subscribed,     \* the event subscriptions of onLoad (lines 84-117) are registered
    ipcReady,       \* the IPC handlers of setupIPCHandlers are registered
    enabled,        \* this.state.enabled
    stateAgents,    \* this.state.agents, a sequence of agent records
    closureAgents,  \* the array `agents` of onLoad, captured by the stateChange handler
    sameArray,      \* this.state.agents is still that same array object
    childOf,        \* agent.childId of each record
    settings,       \* this.state.settings
    intervalConfigured, \* a check interval was supplied (restored state or updateSettings)
    violations,     \* this.state.violations
    nextId,         \* the number of the next violation (its id is unique)
    remote,         \* the agent service: the policy of each agent and process name
    monitored,      \* EpicMonitor.monitoredProcesses
    lastEvent,      \* the handler that ran last: its arguments and its result
    issued,         \* the agent service calls that handler made, in order
    pending         \* the handlers suspended at an await, and where each will resume

vars == <<phase, subscribed, ipcReady, enabled, stateAgents, closureAgents, sameArray,
          childOf, settings, intervalConfigured, violations, nextId, remote, monitored,
          lastEvent, issued, pending>>

pluginVars == <<phase, subscribed, ipcReady, enabled>>
agentVars == <<stateAgents, closureAgents, sameArray, childOf>>
journalVars == <<violations, nextId>>

-----------------------------------------------------------------------------
(* Bounds of the model *)

MaxViolationId == 106
MaxAgentList == 2
MaxPushFailures == 1
MaxControlViolationId == 12
MaxClassified == 2

(* Program constants *)

JournalCapacity == 100
DefaultCheckInterval == 30000
DefaultViolationLimit == 50
RecentViolationWindow == 10

-----------------------------------------------------------------------------
(* Values *)

NoChild == "null"
NoPolicy == [present |-> FALSE]
Null == [null |-> TRUE]

Min(a, b) == IF a < b THEN a ELSE b
Max(a, b) == IF a > b THEN a ELSE b

Range(s) == {s[i] : i \in 1..Len(s)}

RECURSIVE SelectSeqBy(_, _)
SelectSeqBy(s, keep) ==
    IF s = <<>> THEN <<>>
    ELSE IF Head(s) \in keep THEN <<Head(s)>> \o SelectSeqBy(Tail(s), keep)
         ELSE SelectSeqBy(Tail(s), keep)

(* Array.prototype.slice(start): a negative start counts from the end. *)
SliceFrom(s, start) ==
    LET n == Len(s)
        k == IF start < 0 THEN Max(n + start, 0) ELSE Min(start, n)
    IN  SubSeq(s, k + 1, n)

Reverse(s) == [i \in 1..Len(s) |-> s[Len(s) + 1 - i]]

-----------------------------------------------------------------------------
(* The agents of the registry: one record per agent id. *)

Agents == {"a1", "a2", "a3", "a4"}
Children == {"c1", "c2"}

PlatformOf(a) ==
    CASE a = "a1" -> "win32"
      [] a = "a2" -> "linux"
      [] a = "a3" -> "darwin"
      [] OTHER -> "freebsd"

OnlineOf(a) == a \in {"a1", "a3"}

(* The childId the registry reports for a record before the plugin links it. *)
RegistryChild(a) == IF a = "a2" THEN "c1" ELSE NoChild

-----------------------------------------------------------------------------
(* getEpicProcessNames *)

WinNames ==
    [launcher |-> <<"EpicGamesLauncher.exe", "EpicWebHelper.exe",
                    "UnrealEngineLauncher-Win64-Shipping.exe">>,
     games |-> <<"FortniteClient-Win64-Shipping.exe", "FortniteLauncher.exe",
                 "RocketLeague.exe">>]

DarwinNames ==
    [launcher |-> <<"EpicGamesLauncher", "Epic Games Launcher.app">>,
     games |-> <<"Fortnite.app", "RocketLeague.app">>]

LinuxNames ==
    [launcher |-> <<"EpicGamesLauncher", "legendary">>,
     games |-> <<"FortniteClient-Linux-Shipping", "RocketLeague">>]

getEpicProcessNamesLinuxDefault(platform) ==
    CASE platform = "win32" -> WinNames
      [] platform = "darwin" -> DarwinNames
      [] OTHER -> LinuxNames

getEpicProcessNames(platform) ==
    CASE platform = "win32" -> WinNames
      [] platform = "darwin" -> DarwinNames
      [] platform = "linux" -> LinuxNames
      [] OTHER -> WinNames

-----------------------------------------------------------------------------
(* isEpicProcess: String.prototype.toLowerCase and includes, by character *)

UpperChars == "ABCDEFGHIJKLMNOPQRSTUVWXYZ"
LowerChars == "abcdefghijklmnopqrstuvwxyz"

LowerOf ==
    [c \in {SubSeq(UpperChars, i, i) : i \in 1..Len(UpperChars)} |->
        LET i == CHOOSE j \in 1..Len(UpperChars) : SubSeq(UpperChars, j, j) = c
        IN  SubSeq(LowerChars, i, i)]

SameChar(c) == c

LowerChar(c) == IF c \in DOMAIN LowerOf THEN LowerOf[c] ELSE c

RECURSIVE toLowerCase(_)
toLowerCase(s) ==
    IF Len(s) = 0 THEN ""
    ELSE LowerChar(SubSeq(s, 1, 1)) \o toLowerCase(SubSeq(s, 2, Len(s)))

includes(s, keyword) ==
    \E i \in 1..(Len(s) - Len(keyword) + 1) : SubSeq(s, i, i + Len(keyword) - 1) = keyword

epicProcessKeywords ==
    {"epicgameslauncher", "epicwebhelper", "unrealengine", "fortniteclient",
     "fortnitelauncher", "rocketleague", "legendary"}

isEpicProcess(processName) ==
    \E keyword \in epicProcessKeywords : includes(toLowerCase(processName), keyword)

-----------------------------------------------------------------------------
(* handleViolation: the journal *)

TrimKeepOldest(journal) == SubSeq(journal, 1, Min(Len(journal), JournalCapacity))

TrimOffByOne(journal) == SliceFrom(journal, -(JournalCapacity + 1))

(* lines 293-295: keep only the last 100 violations *)
TrimJournal(journal) ==
    IF Len(journal) > JournalCapacity THEN SliceFrom(journal, -JournalCapacity) ELSE journal

(* line 290 and 293-295 *)
AppendViolation(journal, violation) == TrimJournal(Append(journal, violation))

(* lines 281-288: the violation record; its id is unique *)
NewViolation(id, data) ==
    [id |-> id, agentId |-> data.agentId, processName |-> data.processName]


-----------------------------------------------------------------------------
(* The agent service: createPolicy, updatePolicy, deletePolicy *)

ProcessNames ==
    UNION {Range(getEpicProcessNames(p).launcher) \cup Range(getEpicProcessNames(p).games) :
           p \in {"win32", "darwin", "linux"}}
    \cup {"EpicGamesLauncher", "FortniteClient", "RocketLeague"}

NoPolicies == [a \in Agents |-> [p \in ProcessNames |-> NoPolicy]]

(* One successful call on the store.  createPolicy stores the policy under  *)
(* its process name; updatePolicy changes a policy that exists.             *)
ApplyCall(store, call) ==
    CASE call.op = "create" ->
            [store EXCEPT ![call.agent][call.processName] =
                [present |-> TRUE, allowed |-> call.allowed,
                 checkInterval |-> call.checkInterval]]
      [] call.op = "update" ->
            IF store[call.agent][call.processName].present
            THEN [store EXCEPT ![call.agent][call.processName].allowed = call.allowed]
            ELSE store
      [] OTHER -> [store EXCEPT ![call.agent][call.processName] = NoPolicy]

RECURSIVE ApplyCalls(_, _)
ApplyCalls(store, calls) ==
    IF calls = <<>> THEN store
    ELSE ApplyCalls(IF Head(calls).ok THEN ApplyCall(store, Head(calls)) ELSE store,
                    Tail(calls))

(* The sets of calls of a handler that fail: at most MaxPushFailures of n. *)
RECURSIVE FailSetsUpTo(_, _)
FailSetsUpTo(n, k) ==
    IF k = 0 THEN {{}}
    ELSE LET fewer == FailSetsUpTo(n, k - 1)
         IN  fewer \cup {F \cup {i} : F \in fewer, i \in 1..n}

FailSets(n) == FailSetsUpTo(n, MaxPushFailures)

(* The calls of one try block, the i-th of them being call base+i of the    *)
(* handler: they are awaited in order, and the first that fails ends it.    *)
IssuedOfGroup(calls, base, failing) ==
    LET bad == {i \in 1..Len(calls) : (base + i) \in failing}
        stop == IF bad = {} THEN Len(calls) ELSE CHOOSE i \in bad : \A j \in bad : i <= j
    IN  [i \in 1..stop |-> [op |-> calls[i].op, agent |-> calls[i].agent,
                            processName |-> calls[i].processName,
                            allowed |-> calls[i].allowed,
                            checkInterval |-> calls[i].checkInterval,
                            ok |-> (base + i) \notin failing]]

GroupFailed(g) == g # <<>> /\ ~g[Len(g)].ok

(* A loop over groups of calls.  With `caught` a failure ends its group and *)
(* the loop goes on; without, the failure is thrown out of the loop.        *)
RECURSIVE RunGroups(_, _, _, _)
RunGroups(groups, base, failing, caught) ==
    IF groups = <<>> THEN [issued |-> <<>>, threw |-> FALSE]
    ELSE LET g == IssuedOfGroup(Head(groups), base, failing)
         IN  IF GroupFailed(g) /\ ~caught
             THEN [issued |-> g, threw |-> TRUE]
             ELSE LET rest == RunGroups(Tail(groups), base + Len(Head(groups)),
                                        failing, caught)
                  IN  [issued |-> g \o rest.issued, threw |-> rest.threw]

RECURSIVE CountCalls(_)
CountCalls(groups) ==
    IF groups = <<>> THEN 0 ELSE Len(Head(groups)) + CountCalls(Tail(groups))

-----------------------------------------------------------------------------
(* configureEpicPolicy and updateEpicPolicy *)

CreateCall(a, name, allowed, interval) ==
    [op |-> "create", agent |-> a, processName |-> name, allowed |-> allowed,
     checkInterval |-> interval]

UpdateCall(a, name, allowed) ==
    [op |-> "update", agent |-> a, processName |-> name, allowed |-> allowed,
     checkInterval |-> 0]

ConfigureCallsAllowing(a, st) ==
    LET names == getEpicProcessNames(PlatformOf(a))
    IN  <<CreateCall(a, names.launcher[1], TRUE, st.checkInterval)>>
        \o (IF st.monitorAllGames
            THEN [i \in 1..Len(names.games) |->
                    CreateCall(a, names.games[i], FALSE, st.checkInterval)]
            ELSE <<>>)

(* lines 133-172: the createPolicy calls of configureEpicPolicy, in order *)
ConfigureCalls(a, st) ==
    LET names == getEpicProcessNames(PlatformOf(a))
    IN  <<CreateCall(a, names.launcher[1], FALSE, st.checkInterval)>>
        \o (IF st.monitorAllGames
            THEN [i \in 1..Len(names.games) |->
                    CreateCall(a, names.games[i], FALSE, st.checkInterval)]
            ELSE <<>>)

(* lines 79-81, 97, 380-382: configureEpicPolicy for each agent in turn; it *)
(* rethrows a failed createPolicy (lines 175-178).                          *)
configureEpicPolicy(agentSeq, st, failing) ==
    RunGroups([i \in 1..Len(agentSeq) |-> ConfigureCalls(agentSeq[i], st)], 0, failing, FALSE)

EpicAllowedIgnoringPause(allow2State) == allow2State.quota > 0

(* line 185 *)
EpicAllowed(allow2State) == ~allow2State.paused /\ allow2State.quota > 0

(* lines 191-206: the updatePolicy calls of updateEpicPolicy, in order *)
UpdateCalls(a, allow2State, st) ==
    LET names == getEpicProcessNames(PlatformOf(a))
        epicAllowed == EpicAllowed(allow2State)
    IN  <<UpdateCall(a, names.launcher[1], epicAllowed)>>
        \o (IF st.monitorAllGames
            THEN [i \in 1..Len(names.games) |-> UpdateCall(a, names.games[i], epicAllowed)]
            ELSE <<>>)

updateEpicPolicyRethrowing(agentSeq, allow2State, st, failing) ==
    RunGroups([i \in 1..Len(agentSeq) |-> UpdateCalls(agentSeq[i], allow2State, st)],
              0, failing, FALSE)

(* lines 88-90, 414: updateEpicPolicy for each agent in turn; it catches a  *)
(* failed updatePolicy (lines 209-211).                                     *)
updateEpicPolicy(agentSeq, allow2State, st, failing) ==
    RunGroups([i \in 1..Len(agentSeq) |-> UpdateCalls(agentSeq[i], allow2State, st)],
              0, failing, TRUE)

-----------------------------------------------------------------------------
(* The plugin object as constructed (lines 33-46) *)

DefaultSettings ==
    [monitorFortnite |-> TRUE, monitorAllGames |-> TRUE,
     checkInterval |-> DefaultCheckInterval, enableNotifications |-> TRUE]

DefaultState ==
    [enabled |-> FALSE, agents |-> <<>>, violations |-> <<>>, settings |-> DefaultSettings]

NoEvent == [op |-> "none"]

(* The handlers that are followed await by await, none of them in flight *)
SuspendableHandlers == {"linkAgent", "stateChange"}

NoneSuspended == [h \in SuspendableHandlers |-> [stage |-> "idle"]]

Init ==
    /\ phase = "constructed"
    /\ subscribed = FALSE
    /\ ipcReady = FALSE
    /\ enabled = DefaultState.enabled
    /\ stateAgents = DefaultState.agents
    /\ closureAgents = <<>>
    /\ sameArray = FALSE
    /\ childOf = [a \in Agents |-> RegistryChild(a)]
    /\ settings = DefaultState.settings
    /\ intervalConfigured = FALSE
    /\ violations = DefaultState.violations
    /\ nextId = 1
    /\ remote = NoPolicies
    /\ monitored = [a \in Agents |-> Null]
    /\ lastEvent = NoEvent
    /\ issued = <<>>
    /\ pending = NoneSuspended

-----------------------------------------------------------------------------
(* onLoad (lines 52-124).  `loaded` is the restored state or Null;          *)
(* `service` says whether context.services.agent is there, `listing` holds  *)
(* the agents listAgents resolves to, or is Null when it rejects.  The      *)
(* event tells how onLoad ended, whether pluginError was sent to the        *)
(* renderer (`reported`), and what made it fail (`cause`).                  *)

OnLoad(loaded, service, listing, failing) ==
    LET st == IF loaded = Null THEN DefaultState ELSE loaded
        listed == listing.agents
        run == configureEpicPolicy(listed, st.settings, failing)
    IN
    /\ phase = "constructed"
    /\ settings' = st.settings
    /\ intervalConfigured' = (loaded # Null)
    /\ violations' = st.violations
    /\ nextId' = Len(st.violations) + 1
    /\ UNCHANGED <<childOf, monitored, pending>>
    /\ IF ~service
       THEN /\ failing = {}
            /\ listing = Null
            /\ phase' = "failed"
            /\ enabled' = st.enabled
            /\ stateAgents' = st.agents
            /\ lastEvent' = [op |-> "onLoad", result |-> "returned", reported |-> TRUE,
                             cause |-> "agentService"]
            /\ UNCHANGED <<subscribed, ipcReady, closureAgents, sameArray, remote, issued>>
       ELSE IF listing = Null
       THEN /\ failing = {}
            /\ phase' = "failed"
            /\ enabled' = st.enabled
            /\ stateAgents' = st.agents
            /\ lastEvent' = [op |-> "onLoad", result |-> "rejected", reported |-> FALSE,
                             cause |-> "listAgents"]
            /\ UNCHANGED <<subscribed, ipcReady, closureAgents, sameArray, remote, issued>>
       ELSE /\ failing \in FailSets(CountCalls([i \in 1..Len(listed) |->
                                        ConfigureCalls(listed[i], st.settings)]))
            /\ stateAgents' = listed
            /\ closureAgents' = listed
            /\ sameArray' = TRUE
            /\ issued' = run.issued
            /\ remote' = ApplyCalls(remote, run.issued)
            /\ IF run.threw
               THEN /\ phase' = "failed"
                    /\ enabled' = st.enabled
                    /\ lastEvent' = [op |-> "onLoad", result |-> "rejected",
                                     reported |-> FALSE, cause |-> "createPolicy"]
                    /\ UNCHANGED <<subscribed, ipcReady>>
               ELSE /\ phase' = "loaded"
                    /\ enabled' = TRUE
                    /\ subscribed' = TRUE
                    /\ ipcReady' = TRUE
                    /\ lastEvent' = [op |-> "onLoad", result |-> "resolved",
                                     reported |-> FALSE, cause |-> "none"]

-----------------------------------------------------------------------------
(* The violation subscription (lines 113-117) and handleViolation (277-324) *)

Violation(data) ==
    /\ subscribed
    /\ nextId <= MaxViolationId
    /\ IF isEpicProcess(data.processName)
       THEN /\ violations' = AppendViolation(violations, NewViolation(nextId, data))
            /\ nextId' = nextId + 1
            /\ lastEvent' = [op |-> "violation", processName |-> data.processName,
                             accepted |-> TRUE, rendererEvent |-> TRUE,
                             activityLogged |-> TRUE,
                             notified |-> settings.enableNotifications]
       ELSE /\ UNCHANGED journalVars
            /\ lastEvent' = [op |-> "violation", processName |-> data.processName,
                             accepted |-> FALSE, rendererEvent |-> FALSE,
                             activityLogged |-> FALSE, notified |-> FALSE]
    /\ issued' = <<>>
    /\ UNCHANGED <<pluginVars, agentVars, settings, intervalConfigured, remote, monitored, pending>>

(* epic:getViolations (lines 352-357): `{ limit = 50 } = {}` *)
GetViolations(args) ==
    LET n == IF "limit" \in DOMAIN args THEN args.limit ELSE DefaultViolationLimit
    IN
    /\ ipcReady
    /\ lastEvent' = [op |-> "getViolations", limit |-> n, success |-> TRUE,
                     violations |-> Reverse(SliceFrom(violations, -n))]
    /\ issued' = <<>>
    /\ UNCHANGED <<pluginVars, agentVars, journalVars, settings, intervalConfigured,
                   remote, monitored, pending>>

ClearViolationsKeepingNewest ==
    /\ ipcReady
    /\ violations' = SliceFrom(violations, -1)
    /\ lastEvent' = [op |-> "clearViolations", success |-> TRUE]
    /\ issued' = <<>>
    /\ UNCHANGED <<pluginVars, agentVars, nextId, settings, intervalConfigured,
                   remote, monitored, pending>>

(* epic:clearViolations (lines 360-363) *)
ClearViolations ==
    /\ ipcReady
    /\ violations' = <<>>
    /\ lastEvent' = [op |-> "clearViolations", success |-> TRUE]
    /\ issued' = <<>>
    /\ UNCHANGED <<pluginVars, agentVars, nextId, settings, intervalConfigured,
                   remote, monitored, pending>>

-----------------------------------------------------------------------------
(* The journal: restored, appended to, queried and cleared *)

ViolationInputs ==
    {[agentId |-> "a1", processName |-> "FortniteClient-Win64-Shipping.exe"],
     [agentId |-> "a1", processName |-> "notepad.exe"]}

SavedJournal(n) ==
    [i \in 1..n |-> NewViolation(i, [agentId |-> "a1", processName |-> "RocketLeague.exe"])]

SavedStates ==
    {[enabled |-> TRUE, agents |-> <<"a1">>, violations |-> SavedJournal(n),
      settings |-> [DefaultSettings EXCEPT !.enableNotifications = FALSE]] :
        n \in {JournalCapacity - 1, JournalCapacity}}

NoArgs == <<>>

LimitInputs == {NoArgs} \cup {[limit |-> n] : n \in {0, 1, JournalCapacity + 50}}

NextJournal ==
    \/ \E loaded \in {Null} \cup SavedStates : OnLoad(loaded, TRUE, [agents |-> <<>>], {})
    \/ \E data \in ViolationInputs : Violation(data)
    \/ \E args \in LimitInputs : GetViolations(args)
    \/ ClearViolations

SpecJournal == Init /\ [][NextJournal]_vars

-----------------------------------------------------------------------------
(* The agent subscriptions (lines 94-110) *)

AgentDiscovered(a, failing) ==
    LET run == configureEpicPolicy(<<a>>, settings, failing)
    IN
    /\ subscribed
    /\ Len(stateAgents) < MaxAgentList
    /\ failing \in FailSets(Len(ConfigureCalls(a, settings)))
    /\ stateAgents' = Append(stateAgents, a)
    /\ closureAgents' = IF sameArray THEN Append(closureAgents, a) ELSE closureAgents
    /\ issued' = run.issued
    /\ remote' = ApplyCalls(remote, run.issued)
    /\ lastEvent' = [op |-> "agentDiscovered", agent |-> a,
                     known |-> a \in Range(stateAgents),
                     threw |-> run.threw, rendererEvent |-> ~run.threw]
    /\ UNCHANGED <<pluginVars, sameArray, childOf, settings, intervalConfigured,
                   journalVars, monitored, pending>>

AgentLostFirstOnly(a) ==
    LET found == {i \in 1..Len(stateAgents) : stateAgents[i] = a}
        first == CHOOSE i \in found : \A j \in found : i <= j
    IN
    /\ subscribed
    /\ stateAgents' = IF found = {} THEN stateAgents
                      ELSE SubSeq(stateAgents, 1, first - 1)
                           \o SubSeq(stateAgents, first + 1, Len(stateAgents))
    /\ sameArray' = FALSE
    /\ issued' = <<>>
    /\ lastEvent' = [op |-> "agentLost", agent |-> a, rendererEvent |-> TRUE]
    /\ UNCHANGED <<pluginVars, closureAgents, childOf, settings, intervalConfigured,
                   journalVars, remote, monitored, pending>>

(* Array.prototype.filter makes a new array: this.state.agents is no longer *)
(* the array the stateChange handler holds.                                 *)
AgentLost(a) ==
    /\ subscribed
    /\ stateAgents' = SelectSeqBy(stateAgents, Agents \ {a})
    /\ sameArray' = FALSE
    /\ issued' = <<>>
    /\ lastEvent' = [op |-> "agentLost", agent |-> a, rendererEvent |-> TRUE]
    /\ UNCHANGED <<pluginVars, closureAgents, childOf, settings, intervalConfigured,
                   journalVars, remote, monitored, pending>>

StateChangeToAll(child, allow2State, failing) ==
    LET run == updateEpicPolicy(closureAgents, allow2State, settings, failing)
    IN
    /\ subscribed
    /\ failing \in FailSets(CountCalls([i \in 1..Len(closureAgents) |->
                                UpdateCalls(closureAgents[i], allow2State, settings)]))
    /\ issued' = run.issued
    /\ remote' = ApplyCalls(remote, run.issued)
    /\ lastEvent' = [op |-> "stateChange", childId |-> child, state |-> allow2State,
                     threw |-> run.threw]
    /\ UNCHANGED <<pluginVars, agentVars, settings, intervalConfigured, journalVars,
                   monitored, pending>>

(* The stateChange subscription (lines 84-91) *)
StateChange(child, allow2State, failing) ==
    LET childAgents == SelectSeqBy(closureAgents, {a \in Agents : childOf[a] = child})
        run == updateEpicPolicy(childAgents, allow2State, settings, failing)
    IN
    /\ subscribed
    /\ failing \in FailSets(CountCalls([i \in 1..Len(childAgents) |->
                                UpdateCalls(childAgents[i], allow2State, settings)]))
    /\ issued' = run.issued
    /\ remote' = ApplyCalls(remote, run.issued)
    /\ lastEvent' = [op |-> "stateChange", childId |-> child, state |-> allow2State,
                     threw |-> run.threw]
    /\ UNCHANGED <<pluginVars, agentVars, settings, intervalConfigured, journalVars,
                   monitored, pending>>

-----------------------------------------------------------------------------
(* The IPC handlers of setupIPCHandlers (lines 329-431) *)

(* epic:linkAgent (lines 403-417); `fetched` is what getChildState resolves *)
(* to, or Null when it rejects; `quotaFetched` tells whether it was called. *)
LinkAgent(a, child, fetched, failing) ==
    /\ ipcReady
    /\ IF a \notin Range(stateAgents)
       THEN /\ failing = {}
            /\ lastEvent' = [op |-> "linkAgent", agent |-> a, childId |-> child,
                             result |-> "notFound", state |-> fetched,
                             quotaFetched |-> FALSE]
            /\ issued' = <<>>
            /\ UNCHANGED <<childOf, remote>>
       ELSE /\ childOf' = [childOf EXCEPT ![a] = child]
            /\ IF fetched = Null
               THEN /\ failing = {}
                    /\ lastEvent' = [op |-> "linkAgent", agent |-> a, childId |-> child,
                                     result |-> "rejected", state |-> fetched,
                                     quotaFetched |-> TRUE]
                    /\ issued' = <<>>
                    /\ UNCHANGED remote
               ELSE LET run == updateEpicPolicy(<<a>>, fetched, settings, failing)
                    IN  /\ failing \in FailSets(Len(UpdateCalls(a, fetched, settings)))
                        /\ issued' = run.issued
                        /\ remote' = ApplyCalls(remote, run.issued)
                        /\ lastEvent' = [op |-> "linkAgent", agent |-> a,
                                         childId |-> child,
                                         result |-> IF run.threw THEN "rejected" ELSE "ok",
                                         state |-> fetched, quotaFetched |-> TRUE]
    /\ UNCHANGED <<pluginVars, stateAgents, closureAgents, sameArray, settings,
                   intervalConfigured, journalVars, monitored, pending>>

UnlinkAgentResetting(a) ==
    LET known == a \in Range(stateAgents)
        run == updateEpicPolicy(IF known THEN <<a>> ELSE <<>>,
                                [paused |-> TRUE, quota |-> 0], settings, {})
    IN
    /\ ipcReady
    /\ childOf' = IF known THEN [childOf EXCEPT ![a] = NoChild] ELSE childOf
    /\ lastEvent' = [op |-> "unlinkAgent", agent |-> a,
                     result |-> IF known THEN "ok" ELSE "notFound"]
    /\ issued' = run.issued
    /\ remote' = ApplyCalls(remote, run.issued)
    /\ UNCHANGED <<pluginVars, stateAgents, closureAgents, sameArray, settings,
                   intervalConfigured, journalVars, monitored, pending>>

UnlinkAgentUnchecked(a) ==
    /\ ipcReady
    /\ childOf' = [childOf EXCEPT ![a] = NoChild]
    /\ lastEvent' = [op |-> "unlinkAgent", agent |-> a, result |-> "ok"]
    /\ issued' = <<>>
    /\ UNCHANGED <<pluginVars, stateAgents, closureAgents, sameArray, settings,
                   intervalConfigured, journalVars, remote, monitored, pending>>

(* epic:unlinkAgent (lines 420-428) *)
UnlinkAgent(a) ==
    /\ ipcReady
    /\ IF a \notin Range(stateAgents)
       THEN /\ lastEvent' = [op |-> "unlinkAgent", agent |-> a, result |-> "notFound"]
            /\ UNCHANGED childOf
       ELSE /\ childOf' = [childOf EXCEPT ![a] = NoChild]
            /\ lastEvent' = [op |-> "unlinkAgent", agent |-> a, result |-> "ok"]
    /\ issued' = <<>>
    /\ UNCHANGED <<pluginVars, stateAgents, closureAgents, sameArray, settings,
                   intervalConfigured, journalVars, remote, monitored, pending>>

(* { ...this.state.settings, ...newSettings } *)
MergeSettings(old, newSettings) ==
    [k \in DOMAIN old |-> IF k \in DOMAIN newSettings THEN newSettings[k] ELSE old[k]]

(* epic:updateSettings (lines 374-386) *)
UpdateSettings(newSettings, failing) ==
    LET merged == MergeSettings(settings, newSettings)
        reconfigure == "checkInterval" \in DOMAIN newSettings /\ newSettings.checkInterval # 0
        run == configureEpicPolicy(stateAgents, merged, failing)
    IN
    /\ ipcReady
    /\ settings' = merged
    /\ intervalConfigured' = (intervalConfigured \/ "checkInterval" \in DOMAIN newSettings)
    /\ IF reconfigure
       THEN /\ failing \in FailSets(CountCalls([i \in 1..Len(stateAgents) |->
                                        ConfigureCalls(stateAgents[i], merged)]))
            /\ issued' = run.issued
            /\ remote' = ApplyCalls(remote, run.issued)
            /\ lastEvent' = [op |-> "updateSettings", newSettings |-> newSettings,
                             before |-> settings,
                             result |-> IF run.threw THEN "rejected" ELSE "ok"]
       ELSE /\ failing = {}
            /\ issued' = <<>>
            /\ lastEvent' = [op |-> "updateSettings", newSettings |-> newSettings,
                             before |-> settings, result |-> "ok"]
            /\ UNCHANGED remote
    /\ UNCHANGED <<pluginVars, agentVars, journalVars, monitored, pending>>

(* epic:getAgents (lines 338-349) *)
GetAgents ==
    /\ ipcReady
    /\ lastEvent' = [op |-> "getAgents", success |-> TRUE,
                     agents |-> [i \in 1..Len(stateAgents) |->
                                    [id |-> stateAgents[i],
                                     platform |-> PlatformOf(stateAgents[i]),
                                     online |-> OnlineOf(stateAgents[i]),
                                     childId |-> childOf[stateAgents[i]]]]]
    /\ issued' = <<>>
    /\ UNCHANGED <<pluginVars, agentVars, journalVars, settings, intervalConfigured,
                   remote, monitored, pending>>

CountOnlineAll(agentSeq) == Len(agentSeq)

(* line 395: this.state.agents.filter(a => a.online).length *)
CountOnline(agentSeq) == Len(SelectSeqBy(agentSeq, {a \in Agents : OnlineOf(a)}))

(* epic:getStatus (lines 389-400) *)
GetStatus ==
    /\ ipcReady
    /\ lastEvent' = [op |-> "getStatus", success |-> TRUE,
                     status |-> [enabled |-> enabled,
                                 agentCount |-> Len(stateAgents),
                                 onlineAgents |-> CountOnline(stateAgents),
                                 recentViolations |->
                                     Len(SliceFrom(violations, -RecentViolationWindow)),
                                 settings |-> settings]]
    /\ issued' = <<>>
    /\ UNCHANGED <<pluginVars, agentVars, journalVars, settings, intervalConfigured,
                   remote, monitored, pending>>

(* onUnload (lines 436-448): no subscription is removed, no policy deleted *)
OnUnload ==
    /\ phase \in {"loaded", "failed"}
    /\ phase' = "unloaded"
    /\ enabled' = FALSE
    /\ issued' = <<>>
    /\ lastEvent' = [op |-> "onUnload"]
    /\ UNCHANGED <<subscribed, ipcReady, agentVars, settings, intervalConfigured,
                   journalVars, remote, monitored, pending>>

-----------------------------------------------------------------------------
(* EpicMonitor (services/EpicMonitor.js) *)

getLauncherNames(platform) ==
    CASE platform = "darwin" -> <<"EpicGamesLauncher", "Epic Games Launcher.app">>
      [] platform = "linux" -> <<"EpicGamesLauncher", "legendary">>
      [] OTHER -> <<"EpicGamesLauncher.exe", "EpicWebHelper.exe",
                    "UnrealEngineLauncher-Win64-Shipping.exe">>

getFortniteNames(platform) ==
    CASE platform = "darwin" -> <<"Fortnite.app", "FortniteClient">>
      [] platform = "linux" -> <<"FortniteClient-Linux-Shipping", "Fortnite">>
      [] OTHER -> <<"FortniteClient-Win64-Shipping.exe", "FortniteLauncher.exe">>

getRocketLeagueNames(platform) ==
    CASE platform = "darwin" -> <<"RocketLeague.app", "RocketLeague">>
      [] platform = "linux" -> <<"RocketLeague">>
      [] OTHER -> <<"RocketLeague.exe">>

getEpicProcessesGamesOnly(platform, includeGames) ==
    LET baseProcesses ==
            <<[name |-> "EpicGamesLauncher", alternatives |-> getLauncherNames(platform),
               type |-> "launcher", game |-> "null"]>>
        gameProcesses ==
            <<[name |-> "FortniteClient", alternatives |-> getFortniteNames(platform),
               type |-> "game", game |-> "Fortnite"],
              [name |-> "RocketLeague", alternatives |-> getRocketLeagueNames(platform),
               type |-> "game", game |-> "Rocket League"]>>
    IN  IF ~includeGames THEN baseProcesses ELSE gameProcesses

(* getEpicProcesses (lines 75-106) *)
getEpicProcesses(platform, includeGames) ==
    LET baseProcesses ==
            <<[name |-> "EpicGamesLauncher", alternatives |-> getLauncherNames(platform),
               type |-> "launcher", game |-> "null"]>>
        gameProcesses ==
            <<[name |-> "FortniteClient", alternatives |-> getFortniteNames(platform),
               type |-> "game", game |-> "Fortnite"],
              [name |-> "RocketLeague", alternatives |-> getRocketLeagueNames(platform),
               type |-> "game", game |-> "Rocket League"]>>
    IN  IF ~includeGames THEN baseProcesses ELSE baseProcesses \o gameProcesses

(* startMonitoring (lines 25-50); config may leave out either key *)
StartMonitoring(a, config, failing) ==
    LET checkInterval == IF "checkInterval" \in DOMAIN config
                         THEN config.checkInterval ELSE DefaultCheckInterval
        monitorGames == IF "monitorGames" \in DOMAIN config
                        THEN config.monitorGames ELSE TRUE
        processes == getEpicProcesses(PlatformOf(a), monitorGames)
        calls == [i \in 1..Len(processes) |->
                    CreateCall(a, processes[i].name, FALSE, checkInterval)]
        run == RunGroups(<<calls>>, 0, failing, FALSE)
    IN
    /\ phase = "loaded"
    /\ failing \in FailSets(Len(calls))
    /\ issued' = run.issued
    /\ remote' = ApplyCalls(remote, run.issued)
    /\ monitored' = IF run.threw THEN monitored
                    ELSE [monitored EXCEPT ![a] = [processes |-> processes]]
    /\ lastEvent' = [op |-> "startMonitoring", agent |-> a, config |-> config,
                     result |-> IF run.threw THEN "rejected" ELSE "resolved"]
    /\ UNCHANGED <<pluginVars, agentVars, settings, intervalConfigured, journalVars,
                   pending>>

(* line 171 *)
MonitorAllowed(state) == ~state.paused /\ state.quota > 0

(* updateQuotaStatus (lines 169-188) *)
UpdateQuotaStatus(a, child, state, failing) ==
    LET allowed == MonitorAllowed(state)
        processes == monitored[a].processes
        calls == [i \in 1..Len(processes) |-> UpdateCall(a, processes[i].name, allowed)]
        run == RunGroups(<<calls>>, 0, failing, FALSE)
    IN
    /\ phase = "loaded"
    /\ IF monitored[a] = Null
       THEN /\ failing = {}
            /\ issued' = <<>>
            /\ lastEvent' = [op |-> "updateQuotaStatus", agent |-> a, childId |-> child,
                             state |-> state, result |-> "resolved"]
            /\ UNCHANGED remote
       ELSE /\ failing \in FailSets(Len(calls))
            /\ issued' = run.issued
            /\ remote' = ApplyCalls(remote, run.issued)
            /\ lastEvent' = [op |-> "updateQuotaStatus", agent |-> a, childId |-> child,
                             state |-> state,
                             result |-> IF run.threw THEN "rejected" ELSE "resolved"]
    /\ UNCHANGED <<pluginVars, agentVars, settings, intervalConfigured, journalVars,
                   monitored, pending>>

(* the deletePolicy call of stopMonitoring (line 66) *)
DeleteCall(a, processName) ==
    [op |-> "delete", agent |-> a, processName |-> processName,
     allowed |-> FALSE, checkInterval |-> 0]

(* stopMonitoring (lines 55-70): nothing is done for an agent without an    *)
(* entry; a deletePolicy that fails is thrown before the entry is removed   *)
StopMonitoring(a, failing) ==
    LET processes == monitored[a].processes
        calls == [i \in 1..Len(processes) |-> DeleteCall(a, processes[i].name)]
        run == RunGroups(<<calls>>, 0, failing, FALSE)
    IN
    /\ phase = "loaded"
    /\ IF monitored[a] = Null
       THEN /\ failing = {}
            /\ issued' = <<>>
            /\ lastEvent' = [op |-> "stopMonitoring", agent |-> a, found |-> FALSE,
                             result |-> "resolved"]
            /\ UNCHANGED <<remote, monitored>>
       ELSE /\ failing \in FailSets(Len(calls))
            /\ issued' = run.issued
            /\ remote' = ApplyCalls(remote, run.issued)
            /\ monitored' = IF run.threw THEN monitored
                            ELSE [monitored EXCEPT ![a] = Null]
            /\ lastEvent' = [op |-> "stopMonitoring", agent |-> a, found |-> TRUE,
                             result |-> IF run.threw THEN "rejected" ELSE "resolved"]
    /\ UNCHANGED <<pluginVars, agentVars, settings, intervalConfigured, journalVars,
                   pending>>

(* getStats (lines 193-206) *)
getStats(entries, a) ==
    LET processes == entries[a]
    IN  [agentId |-> a,
         monitoring |-> processes # Null,
         processCount |-> IF processes # Null THEN Len(processes.processes) ELSE 0,
         processes |-> IF processes # Null
                       THEN [i \in 1..Len(processes.processes) |->
                               [name |-> processes.processes[i].name,
                                type |-> processes.processes[i].type,
                                game |-> processes.processes[i].game]]
                       ELSE <<>>]

GetStats(a) ==
    /\ phase = "loaded"
    /\ issued' = <<>>
    /\ lastEvent' = [op |-> "getStats", stats |-> getStats(monitored, a)]
    /\ UNCHANGED <<pluginVars, agentVars, settings, intervalConfigured, journalVars,
                   remote, monitored, pending>>

-----------------------------------------------------------------------------
(* Quota states *)

QuotaValues == {-1, 0, 5, 10}

QuotaStates == [paused : BOOLEAN, quota : QuotaValues]

Allowing == [paused |-> FALSE, quota |-> 10]
Pausing == [paused |-> TRUE, quota |-> 10]

-----------------------------------------------------------------------------
(* The fleet: agents come and go, are linked and unlinked, and quota states *)
(* change; every call on the agent service succeeds.                        *)

FleetAgents == {"a1", "a2"}

FleetListings == {[agents |-> <<>>], [agents |-> <<"a1">>], [agents |-> <<"a1", "a2">>]}

Next ==
    \/ \E listing \in FleetListings : OnLoad(Null, TRUE, listing, {})
    \/ \E a \in FleetAgents : AgentDiscovered(a, {})
    \/ \E a \in FleetAgents : AgentLost(a)
    \/ \E c \in Children, q \in {Allowing, Pausing} : StateChange(c, q, {})
    \/ \E a \in FleetAgents, c \in Children, q \in {Allowing, Pausing} :
            LinkAgent(a, c, q, {})
    \/ \E a \in FleetAgents : UnlinkAgent(a)

Spec == Init /\ [][Next]_vars

-----------------------------------------------------------------------------
(* The fan-out: two agents are listed at startup, are linked, and quota     *)
(* states change; calls on the agent service may fail.                      *)

NextFanout ==
    \/ \E failing \in FailSets(2 * 4) :
            OnLoad(Null, TRUE, [agents |-> <<"a1", "a2">>], failing)
    \/ \E a \in FleetAgents, q \in {Allowing, Pausing}, failing \in FailSets(4) :
            LinkAgent(a, "c1", q, failing)
    \/ \E q \in {Allowing, Pausing}, failing \in FailSets(2 * 4) :
            StateChange("c1", q, failing)

SpecFanout == Init /\ [][NextFanout]_vars

-----------------------------------------------------------------------------
(* The settings: one agent is discovered and linked while the settings are  *)
(* updated, by single keys or (as the settings form does) by sending the    *)
(* whole of the current settings again.                                     *)

SettingsInputs ==
    {[monitorAllGames |-> b] : b \in BOOLEAN}
    \cup {[checkInterval |-> n] : n \in {-1000, 0, 60000}}

NextSettings ==
    \/ OnLoad(Null, TRUE, [agents |-> <<>>], {})
    \/ AgentDiscovered("a1", {})
    \/ \E s \in SettingsInputs : UpdateSettings(s, {})
    \/ UpdateSettings(settings, {})
    \/ \E q \in {Allowing, Pausing} : LinkAgent("a1", "c1", q, {})
    \/ \E q \in {Allowing, Pausing} : StateChange("c1", q, {})

SpecSettings == Init /\ [][NextSettings]_vars

-----------------------------------------------------------------------------
(* Discovery: agents of every platform are listed at startup or discovered, *)
(* under default or restored settings, and EpicMonitor starts monitoring    *)
(* the first agent of the list.                                             *)

RestoredSettings ==
    [enabled |-> TRUE, agents |-> <<"a1">>, violations |-> <<>>,
     settings |-> [DefaultSettings EXCEPT !.monitorAllGames = FALSE,
                                          !.checkInterval = 60000]]

MonitorConfigs ==
    {NoArgs, [monitorGames |-> FALSE], [checkInterval |-> 60000, monitorGames |-> TRUE]}

NextDiscovery ==
    \/ \E loaded \in {Null, RestoredSettings}, a \in Agents :
            OnLoad(loaded, TRUE, [agents |-> <<a>>], {})
    \/ \E a \in Agents : AgentDiscovered(a, {})
    \/ \E b \in BOOLEAN : UpdateSettings([monitorAllGames |-> b], {})
    \/ \E config \in MonitorConfigs :
            stateAgents # <<>> /\ StartMonitoring(Head(stateAgents), config, {})

SpecDiscovery == Init /\ [][NextDiscovery]_vars

-----------------------------------------------------------------------------
(* The quota: one agent is linked and monitored, and every quota state is   *)
(* fetched for it or reported as a change.                                  *)

NextQuota ==
    \/ OnLoad(Null, TRUE, [agents |-> <<"a1">>], {})
    \/ StartMonitoring("a1", NoArgs, {})
    \/ \E q \in QuotaStates : LinkAgent("a1", "c1", q, {})
    \/ \E q \in QuotaStates : StateChange("c1", q, {})
    \/ \E q \in QuotaStates : UpdateQuotaStatus("a1", "c1", q, {})

SpecQuota == Init /\ [][NextQuota]_vars

-----------------------------------------------------------------------------
(* The control surface: two agents are listed at startup over a restored    *)
(* journal, agents are lost, linked and unlinked by id (known or not),      *)
(* violations are reported, and the journal is cleared and the status read. *)

ControlSaved ==
    [enabled |-> FALSE, agents |-> <<>>,
     violations |-> SavedJournal(RecentViolationWindow - 1),
     settings |-> [DefaultSettings EXCEPT !.enableNotifications = FALSE]]

ControlAgents == {"a1", "a2", "a3"}

NextControl ==
    \/ OnLoad(ControlSaved, TRUE, [agents |-> <<"a1", "a2">>], {})
    \/ \E a \in FleetAgents : AgentLost(a)
    \/ \E a \in ControlAgents : LinkAgent(a, "c2", Allowing, {})
    \/ \E a \in ControlAgents : UnlinkAgent(a)
    \/ \E data \in ViolationInputs : nextId <= MaxControlViolationId /\ Violation(data)
    \/ ClearViolations
    \/ GetStatus

SpecControl == Init /\ [][NextControl]_vars

-----------------------------------------------------------------------------
(* The classifier: violations are reported under process names of every     *)
(* kind: catalog names, other cases, other programs.                        *)

ClassifierNames ==
    {"FortniteClient-Win64-Shipping.exe", "ROCKETLEAGUE.EXE", "legendary",
     "EpicWebHelper.exe", "C:\\Epic\\UnrealEngineLauncher-Win64-Shipping.exe",
     "notepad.exe", "Fortnite.app", "Epic Games Launcher.app", "rocket league", ""}

ClassifierInputs == {[agentId |-> "a1", processName |-> name] : name \in ClassifierNames}

NextClassifier ==
    \/ \E b \in BOOLEAN :
            OnLoad([DefaultState EXCEPT !.settings.enableNotifications = b], TRUE,
                   [agents |-> <<"a1">>], {})
    \/ \E data \in ClassifierInputs : nextId <= MaxClassified /\ Violation(data)
    \/ ClearViolations

SpecClassifier == Init /\ [][NextClassifier]_vars

-----------------------------------------------------------------------------
(* Startup: the plugin is loaded over any saved state, with or without the  *)
(* agent service, with listAgents resolving or rejecting, and with calls on *)
(* the agent service that may fail; settings are updated and the plugin is  *)
(* unloaded.                                                                *)

StartupStates == {Null, RestoredSettings, ControlSaved}

StartupSettings == {[checkInterval |-> 60000], [monitorAllGames |-> FALSE]}

NextStartup ==
    \/ \E loaded \in StartupStates : OnLoad(loaded, FALSE, Null, {})
    \/ \E loaded \in StartupStates : OnLoad(loaded, TRUE, Null, {})
    \/ \E loaded \in StartupStates, listing \in FleetListings, failing \in FailSets(2 * 4) :
            OnLoad(loaded, TRUE, listing, failing)
    \/ \E s \in StartupSettings, failing \in FailSets(2 * 4) : UpdateSettings(s, failing)
    \/ GetStatus
    \/ OnUnload

SpecStartup == Init /\ [][NextStartup]_vars

-----------------------------------------------------------------------------
(* The roster: agents are listed at startup over a restored state, are      *)
(* discovered (again), linked and lost, and the agent list and the status   *)
(* are read.                                                                *)

NextRoster ==
    \/ \E listing \in FleetListings : OnLoad(ControlSaved, TRUE, listing, {})
    \/ \E a \in FleetAgents : AgentDiscovered(a, {})
    \/ \E a \in ControlAgents : AgentLost(a)
    \/ \E a \in FleetAgents, c \in Children : LinkAgent(a, c, Allowing, {})
    \/ GetAgents
    \/ GetStatus

SpecRoster == Init /\ [][NextRoster]_vars

-----------------------------------------------------------------------------
(* linkAgent and the stateChange handler, await by await.  A handler runs   *)
(* until its next await and is resumed when the awaited call has resolved;  *)
(* a handler that is suspended lets any other handler run.  Here `issued`   *)
(* is the sequence of all calls made on the agent service since startup,    *)
(* each update with the handler that made it; every call succeeds and takes *)
(* effect when it is made.                                                  *)

TaggedCall(h, call) ==
    [handler |-> h, op |-> call.op, agent |-> call.agent, processName |-> call.processName,
     allowed |-> call.allowed, checkInterval |-> call.checkInterval, ok |-> TRUE]

(* The updatePolicy calls a suspended handler makes in all, in order: those *)
(* of updateEpicPolicy (lines 191-206) for each of its agents (lines 88-90, *)
(* 414).                                                                    *)
RECURSIVE CallsOfAgents(_, _)
CallsOfAgents(agentSeq, allow2State) ==
    IF agentSeq = <<>> THEN <<>>
    ELSE UpdateCalls(Head(agentSeq), allow2State, settings)
         \o CallsOfAgents(Tail(agentSeq), allow2State)

(* The handler h, having made `sent` of its calls, goes on to its next      *)
(* await, or to its end.                                                    *)
RunToNextAwait(h, task) ==
    LET calls == CallsOfAgents(task.agents, task.state)
    IN  IF task.sent < Len(calls)
        THEN LET call == TaggedCall(h, calls[task.sent + 1])
             IN  /\ issued' = Append(issued, call)
                 /\ remote' = ApplyCall(remote, call)
                 /\ pending' = [pending EXCEPT ![h] =
                                    [task EXCEPT !.stage = "pushing", !.sent = task.sent + 1]]
                 /\ lastEvent' = [op |-> h, step |-> "push"]
        ELSE /\ pending' = [pending EXCEPT ![h] = [task EXCEPT !.stage = "done"]]
             /\ lastEvent' = [op |-> h, step |-> "done"]
             /\ UNCHANGED <<issued, remote>>

(* epic:linkAgent up to `await context.allow2.getChildState` (lines 403-413) *)
LinkAgentBegins(a, child, fetched) ==
    /\ ipcReady
    /\ pending["linkAgent"].stage = "idle"
    /\ a \in Range(stateAgents)
    /\ childOf' = [childOf EXCEPT ![a] = child]
    /\ pending' = [pending EXCEPT !["linkAgent"] =
                        [stage |-> "fetching", agents |-> <<a>>, childId |-> child,
                         state |-> fetched, sent |-> 0]]
    /\ lastEvent' = [op |-> "linkAgent", step |-> "begin"]
    /\ UNCHANGED <<pluginVars, stateAgents, closureAgents, sameArray, settings,
                   intervalConfigured, journalVars, remote, monitored, issued>>

(* The stateChange handler up to its first await (lines 84-89) *)
StateChangeBegins(child, allow2State) ==
    LET childAgents == SelectSeqBy(closureAgents, {a \in Agents : childOf[a] = child})
    IN
    /\ subscribed
    /\ pending["stateChange"].stage = "idle"
    /\ RunToNextAwait("stateChange",
                      [stage |-> "idle", agents |-> childAgents, childId |-> child,
                       state |-> allow2State, sent |-> 0])
    /\ UNCHANGED <<pluginVars, agentVars, settings, intervalConfigured, journalVars,
                   monitored>>

(* The call a handler awaits has resolved: the handler goes on *)
Resume(h) ==
    /\ pending[h].stage \in {"fetching", "pushing"}
    /\ RunToNextAwait(h, pending[h])
    /\ UNCHANGED <<pluginVars, agentVars, settings, intervalConfigured, journalVars,
                   monitored>>

NextInterleave ==
    \/ OnLoad(Null, TRUE, [agents |-> <<"a1", "a2">>], {})
    \/ \E a \in FleetAgents, c \in Children, q \in {Allowing, Pausing} :
            LinkAgentBegins(a, c, q)
    \/ \E c \in Children, q \in {Allowing, Pausing} : StateChangeBegins(c, q)
    \/ \E h \in SuspendableHandlers : Resume(h)

SpecInterleave == Init /\ [][NextInterleave]_vars

-----------------------------------------------------------------------------
(* Linking: two agents are listed at startup and are linked and unlinked;   *)
(* the quota state of the entity may fail to be fetched, and updates may    *)
(* fail; quota states change.                                               *)

NextLink ==
    \/ OnLoad(Null, TRUE, [agents |-> <<"a1", "a2">>], {})
    \/ \E a \in FleetAgents, c \in Children : LinkAgent(a, c, Null, {})
    \/ \E a \in FleetAgents, q \in {Allowing, Pausing}, failing \in FailSets(4) :
            LinkAgent(a, "c1", q, failing)
    \/ \E a \in FleetAgents : UnlinkAgent(a)
    \/ \E q \in {Allowing, Pausing} : StateChange("c1", q, {})

SpecLink == Init /\ [][NextLink]_vars

-----------------------------------------------------------------------------
(* Unloading: the plugin is loaded with one agent listed and bound, and is  *)
(* unloaded; agents are discovered and lost, violations are reported and    *)
(* quota states change, before the unload and after it.                     *)

NextUnload ==
    \/ OnLoad(Null, TRUE, [agents |-> <<"a2">>], {})
    \/ OnUnload
    \/ \E a \in FleetAgents : AgentDiscovered(a, {})
    \/ \E a \in FleetAgents : AgentLost(a)
    \/ \E data \in ViolationInputs : nextId <= MaxClassified /\ Violation(data)
    \/ \E q \in {Allowing, Pausing} : StateChange("c1", q, {})

SpecUnload == Init /\ [][NextUnload]_vars

-----------------------------------------------------------------------------
(* The monitor: monitoring is started on an agent with every configuration, *)
(* again and again, and stopped; any one createPolicy or deletePolicy call  *)
(* may fail.                                                                *)

MonitorAgents == {"a1"}

NextMonitor ==
    \/ OnLoad(Null, TRUE, [agents |-> <<>>], {})
    \/ \E a \in MonitorAgents, config \in MonitorConfigs, failing \in FailSets(3) :
            StartMonitoring(a, config, failing)
    \/ \E a \in MonitorAgents, failing \in FailSets(3) : StopMonitoring(a, failing)
    \/ \E a \in MonitorAgents : GetStats(a)

SpecMonitor == Init /\ [][NextMonitor]_vars

-----------------------------------------------------------------------------
(* The claims *)

(* C1: in every state reached by violation reports, getViolations queries   *)
(* and clearViolations calls (after any restore), the violation journal     *)
(* holds at most 100 entries.                                               *)
C1_JournalBounded == Len(violations) <= JournalCapacity

(* C1's case: a violation was accepted into a full journal, which evicted.  *)
C1_Witness ==
    /\ lastEvent.op = "violation"
    /\ lastEvent.accepted
    /\ Len(violations) = JournalCapacity
    /\ violations[1].id > 1

(* A step that accepts a violation: the only one that numbers a new entry. *)
AcceptStep == subscribed /\ nextId' = nextId + 1

(* C2: an accepted violation appended to a journal of 100 entries evicts    *)
(* exactly the oldest entry, the others keep their order and the new entry  *)
(* is last; so the journal always holds the most recently appended entries  *)
(* in insertion order (after 105 appends: the last 100).                    *)
C2_EvictsOldest ==
    /\ [][AcceptStep /\ Len(violations) = JournalCapacity =>
            /\ Len(violations') = JournalCapacity
            /\ violations' = Append(Tail(violations), violations'[JournalCapacity])
            /\ violations'[JournalCapacity].id = nextId
            /\ violations'[JournalCapacity].processName = lastEvent'.processName]_vars
    /\ [](\A i \in 1..Len(violations) :
            violations[i].id = nextId - Len(violations) + i - 1)

(* C2's case: 105 violations appended to the empty journal, none cleared.   *)
C2_Witness ==
    /\ lastEvent.op = "violation"
    /\ lastEvent.accepted
    /\ nextId = JournalCapacity + 6
    /\ Len(violations) = JournalCapacity
    /\ violations[1].id = 6
    /\ violations[1].processName = "FortniteClient-Win64-Shipping.exe"

-----------------------------------------------------------------------------
(* What the claims say of a quota state and of the calls of a handler *)

ExpectedAllowed(q) ==
    CASE q.paused -> FALSE
      [] q.quota <= 0 -> FALSE
      [] OTHER -> TRUE

IssuedTo(a) == {i \in 1..Len(issued) : issued[i].agent = a}

AllIssuedOk == \A i \in 1..Len(issued) : issued[i].ok

(* C3: the allowed flag computed from a quota state is false when paused,   *)
(* false when quota <= 0 and true otherwise, and linkAgent, the stateChange *)
(* handler and EpicMonitor.updateQuotaStatus all push that same value.      *)
C3_AllowedFlag ==
    lastEvent.op \in {"linkAgent", "stateChange", "updateQuotaStatus"} =>
        \A i \in 1..Len(issued) :
            /\ issued[i].op = "update"
            /\ issued[i].allowed = ExpectedAllowed(lastEvent.state)

(* C3's case: a paused quota state with quota left was pushed as denied.    *)
C3_Witness ==
    /\ lastEvent.op = "stateChange"
    /\ lastEvent.state.paused
    /\ lastEvent.state.quota > 0
    /\ issued # <<>>
    /\ ~issued[1].allowed

(* C4: every policy created at discovery, at startup or by startMonitoring  *)
(* is created with allowed = false, on every platform and for both values   *)
(* of monitorAllGames, and with check interval 30000 when none was          *)
(* configured.                                                              *)
C4_CreatedDenied ==
    \A i \in 1..Len(issued) :
        issued[i].op = "create" =>
            /\ ~issued[i].allowed
            /\ lastEvent.op \in {"onLoad", "agentDiscovered"} /\ ~intervalConfigured
                    => issued[i].checkInterval = DefaultCheckInterval
            /\ lastEvent.op = "startMonitoring" /\ "checkInterval" \notin DOMAIN lastEvent.config
                    => issued[i].checkInterval = DefaultCheckInterval

(* C4's case: an agent of an unrecognized platform was discovered under the *)
(* default settings and its policies were created.                          *)
C4_Witness ==
    /\ lastEvent.op = "agentDiscovered"
    /\ lastEvent.agent = "a4"
    /\ ~intervalConfigured
    /\ settings.monitorAllGames
    /\ Len(issued) = 4
    /\ \A i \in 1..Len(issued) : issued[i].op = "create" /\ issued[i].ok

(* C5: discovering a win32 agent while monitorAllGames is true creates a    *)
(* separate policy for each of the three launcher executables, for the      *)
(* Fortnite client and for Rocket League, each keyed by its process name.   *)
C5_SeparateLauncherPolicies ==
    ( /\ lastEvent.op = "agentDiscovered"
      /\ PlatformOf(lastEvent.agent) = "win32"
      /\ settings.monitorAllGames
      /\ ~lastEvent.threw ) =>
        \A name \in {"EpicGamesLauncher.exe", "EpicWebHelper.exe",
                     "UnrealEngineLauncher-Win64-Shipping.exe",
                     "FortniteClient-Win64-Shipping.exe", "RocketLeague.exe"} :
            /\ remote[lastEvent.agent][name].present
            /\ \E i \in 1..Len(issued) :
                    issued[i].op = "create" /\ issued[i].processName = name

(* C6: agentDiscovered delivered again for a known agent is idempotent: the *)
(* agent list holds one record of that agent and no createPolicy is issued. *)
C6_RediscoveryIdempotent ==
    (lastEvent.op = "agentDiscovered" /\ lastEvent.known) =>
        /\ Cardinality({i \in 1..Len(stateAgents) : stateAgents[i] = lastEvent.agent}) = 1
        /\ issued = <<>>

(* C7: after linkAgent completes for a known agent with every push          *)
(* succeeding, every policy that exists for the agent carries the allowed   *)
(* flag of the fetched quota state, whatever settings updates came before.  *)
C7_LinkFlipsEveryPolicy ==
    (lastEvent.op = "linkAgent" /\ lastEvent.result = "ok" /\ AllIssuedOk) =>
        \A name \in ProcessNames :
            remote[lastEvent.agent][name].present =>
                remote[lastEvent.agent][name].allowed = ExpectedAllowed(lastEvent.state)

(* C8: a stateChange pushes the recomputed flag to every agent that is in   *)
(* the agent list and linked to the entity when the event is processed.     *)
C8_FanoutReachesLinked ==
    lastEvent.op = "stateChange" =>
        \A a \in Range(stateAgents) :
            childOf[a] = lastEvent.childId =>
                \E i \in IssuedTo(a) :
                    /\ issued[i].op = "update"
                    /\ issued[i].allowed = ExpectedAllowed(lastEvent.state)

(* C9: once agentLost has been processed for an agent, no stateChange       *)
(* pushes a policy to it, unless it has been discovered again.              *)
C9_NoPushToLostAgent ==
    lastEvent.op = "stateChange" =>
        \A i \in 1..Len(issued) : issued[i].agent \in Range(stateAgents)

(* C10: in a stateChange fan-out over several linked agents, a failed       *)
(* update for one agent does not keep the updates of the other linked       *)
(* agents from being issued, and the handler does not throw.                *)
C10_FanoutIsolated ==
    lastEvent.op = "stateChange" =>
        /\ ~lastEvent.threw
        /\ \A a \in Range(stateAgents) :
              childOf[a] = lastEvent.childId =>
                /\ IssuedTo(a) # {}
                /\ (\A i \in IssuedTo(a) : issued[i].ok) =>
                      \A k \in 1..Len(UpdateCalls(a, lastEvent.state, settings)) :
                        \E i \in IssuedTo(a) :
                            /\ issued[i].processName =
                                  UpdateCalls(a, lastEvent.state, settings)[k].processName
                            /\ issued[i].allowed = ExpectedAllowed(lastEvent.state)

(* C10's case: the first update of a1 failed and every update of a2, which  *)
(* comes after it in the fan-out, was issued and succeeded.                 *)
C10_Witness ==
    /\ lastEvent.op = "stateChange"
    /\ Len(issued) = 4
    /\ issued[1].agent = "a1" /\ ~issued[1].ok
    /\ \A i \in 2..4 : issued[i].agent = "a2" /\ issued[i].ok

-----------------------------------------------------------------------------
(* Steps of the control surface, told by the handler that ran *)

UnlinkStep == lastEvent'.op = "unlinkAgent"
LinkStep == lastEvent'.op = "linkAgent"

PoliciesOf(a) == {name \in ProcessNames : remote[a][name].present}

(* C11: unlinkAgent on an agent of the agent list clears that agent's       *)
(* binding (and no other), returns ok and issues no call on the agent       *)
(* service: every policy and allowed flag, the journal and the settings are *)
(* the same after the call as before it.                                    *)
C11_UnlinkFrame ==
    [][(UnlinkStep /\ lastEvent'.agent \in Range(stateAgents)) =>
            /\ lastEvent'.result = "ok"
            /\ childOf'[lastEvent'.agent] = NoChild
            /\ \A b \in Agents \ {lastEvent'.agent} : childOf'[b] = childOf[b]
            /\ issued' = <<>>
            /\ remote' = remote
            /\ violations' = violations
            /\ settings' = settings]_vars

(* C11's case: an agent whose policies had been flipped to allowed by a     *)
(* link was unlinked, over a journal that is not empty: they stay allowed.  *)
C11_Witness ==
    /\ lastEvent.op = "unlinkAgent"
    /\ lastEvent.result = "ok"
    /\ childOf[lastEvent.agent] = NoChild
    /\ PoliciesOf(lastEvent.agent) # {}
    /\ \A name \in PoliciesOf(lastEvent.agent) : remote[lastEvent.agent][name].allowed
    /\ violations # <<>>

-----------------------------------------------------------------------------
(* What the claims say of the policies of an agent under given settings *)

LauncherNameOf(a) == getEpicProcessNames(PlatformOf(a)).launcher[1]

GameNamesOf(a) == Range(getEpicProcessNames(PlatformOf(a)).games)

SettingsStep(key) == lastEvent.op = "updateSettings" /\ key \in DOMAIN lastEvent.newSettings

(* C12: after updateSettings changes monitorAllGames from true to false,    *)
(* every agent of the list has its launcher policy and none of its game     *)
(* policies; after a change from false to true it has its game policies.    *)
C12_ToggleGames ==
    ( /\ SettingsStep("monitorAllGames")
      /\ lastEvent.before.monitorAllGames # lastEvent.newSettings.monitorAllGames
      /\ lastEvent.result = "ok" ) =>
        \A a \in Range(stateAgents) :
            IF lastEvent.before.monitorAllGames
            THEN /\ remote[a][LauncherNameOf(a)].present
                 /\ \A name \in GameNamesOf(a) : ~remote[a][name].present
            ELSE \A name \in GameNamesOf(a) : remote[a][name].present

(* C13: after updateSettings with a check interval other than the current   *)
(* one has completed with every push succeeding, every policy of every      *)
(* agent of the list carries the new check interval.                        *)
C13_IntervalReconfigured ==
    ( /\ SettingsStep("checkInterval")
      /\ lastEvent.newSettings.checkInterval # lastEvent.before.checkInterval
      /\ lastEvent.result = "ok"
      /\ AllIssuedOk ) =>
        \A a \in Range(stateAgents) : \A name \in PoliciesOf(a) :
            remote[a][name].checkInterval = lastEvent.newSettings.checkInterval

(* C14: updateSettings with a check interval of zero or less returns an     *)
(* error, leaves the settings as they were and issues no policy push.       *)
C14_IntervalValidated ==
    ( /\ SettingsStep("checkInterval")
      /\ lastEvent.newSettings.checkInterval <= 0 ) =>
        /\ lastEvent.result = "error"
        /\ settings = lastEvent.before
        /\ issued = <<>>

(* C15: linkAgent and unlinkAgent with an agent id that is not in the agent *)
(* list return a not-found result and do nothing else: no binding changes,  *)
(* no quota state is fetched, no call is made on the agent service, and the *)
(* agent list, the journal and the settings stay as they were.              *)
C15_NotFoundNoEffect ==
    [][((UnlinkStep \/ LinkStep) /\ lastEvent'.agent \notin Range(stateAgents)) =>
            /\ lastEvent'.result = "notFound"
            /\ LinkStep => ~lastEvent'.quotaFetched
            /\ childOf' = childOf
            /\ stateAgents' = stateAgents
            /\ issued' = <<>>
            /\ remote' = remote
            /\ violations' = violations
            /\ settings' = settings]_vars

(* C15's case: an agent that was bound to an entity was lost, and a link    *)
(* to another entity under its id was answered not-found: its record keeps  *)
(* the old binding.                                                         *)
C15_Witness ==
    /\ lastEvent.op = "linkAgent"
    /\ lastEvent.result = "notFound"
    /\ lastEvent.agent = "a2"
    /\ lastEvent.childId = "c2"
    /\ childOf["a2"] = "c1"
    /\ violations # <<>>

-----------------------------------------------------------------------------
(* The reported names that hold a keyword once lower-cased: fortniteclient, *)
(* rocketleague, legendary, epicwebhelper, unrealengine.  The others hold   *)
(* none: "fortnite.app", "epic games launcher.app" and "rocket league" have *)
(* no keyword as a substring.                                               *)
NamesWithKeyword ==
    {"FortniteClient-Win64-Shipping.exe", "ROCKETLEAGUE.EXE", "legendary",
     "EpicWebHelper.exe", "C:\\Epic\\UnrealEngineLauncher-Win64-Shipping.exe"}

(* C16: a reported violation is appended to the journal exactly when its    *)
(* process name, lower-cased, contains a keyword; a violation whose name    *)
(* contains none leaves the journal as it was and triggers no renderer      *)
(* event, activity log or notification.                                     *)
C16_ClassifiedByKeyword ==
    [][lastEvent'.op = "violation" =>
            IF lastEvent'.processName \in NamesWithKeyword
            THEN /\ lastEvent'.accepted
                 /\ Len(violations') = Len(violations) + 1
                 /\ SubSeq(violations', 1, Len(violations)) = violations
                 /\ violations'[Len(violations')].processName = lastEvent'.processName
            ELSE /\ ~lastEvent'.accepted
                 /\ violations' = violations
                 /\ ~lastEvent'.rendererEvent
                 /\ ~lastEvent'.activityLogged
                 /\ ~lastEvent'.notified]_vars

(* C16's case: a name in upper case was recorded after a name with no       *)
(* keyword had been dropped.                                                *)
C16_Witness ==
    /\ lastEvent.op = "violation"
    /\ lastEvent.processName = "ROCKETLEAGUE.EXE"
    /\ lastEvent.accepted
    /\ Len(violations) = 2
    /\ violations[1].processName = "legendary"
    /\ violations[2].processName = "ROCKETLEAGUE.EXE"

(* C17: getViolations(limit), for every limit >= 0 and 50 by default,       *)
(* returns the min(limit, journal size) most recently appended violations,  *)
(* newest first, and does not modify the journal.                           *)
C17_NewestFirst ==
    /\ [][lastEvent'.op = "getViolations" => violations' = violations]_vars
    /\ [](lastEvent.op = "getViolations" =>
            LET result == lastEvent.violations
                n == Len(violations)
            IN  /\ lastEvent.limit >= 0 => Len(result) = Min(lastEvent.limit, n)
                /\ \A i \in 1..Min(Len(result), n) : result[i] = violations[n + 1 - i])

(* C18: clearViolations returns ok and leaves the journal empty and the     *)
(* agent list, every binding, the settings and every remote policy as they  *)
(* were; a violation accepted into the emptied journal makes it hold        *)
(* exactly that one entry.                                                  *)
C18_ClearFrame ==
    /\ [][lastEvent'.op = "clearViolations" =>
            /\ lastEvent'.success
            /\ violations' = <<>>
            /\ stateAgents' = stateAgents
            /\ childOf' = childOf
            /\ settings' = settings
            /\ remote' = remote
            /\ issued' = <<>>]_vars
    /\ [][(violations = <<>> /\ lastEvent'.op = "violation" /\ lastEvent'.accepted) =>
            /\ Len(violations') = 1
            /\ violations'[1].processName = lastEvent'.processName
            /\ violations'[1].id = nextId]_vars

(* C18's case: the restored journal was cleared while an agent was bound    *)
(* and allowed, and the violation accepted next is its only entry.          *)
C18_Witness ==
    /\ lastEvent.op = "violation"
    /\ lastEvent.accepted
    /\ Len(violations) = 1
    /\ violations[1].id >= RecentViolationWindow
    /\ childOf["a1"] = "c2"
    /\ remote["a1"][LauncherNameOf("a1")].allowed

(* C19: getStatus returns the number of agent records, the number of those  *)
(* that are online, min(10, journal size) as the recent violation count,    *)
(* and the current enabled flag and settings; it changes no state, and      *)
(* always onlineCount <= agentCount and recentViolationCount <= 10.         *)
C19_StatusSummary ==
    /\ [][lastEvent'.op = "getStatus" =>
            UNCHANGED <<pluginVars, agentVars, journalVars, settings, remote, monitored>>]_vars
    /\ [](lastEvent.op = "getStatus" =>
            LET status == lastEvent.status
            IN  /\ lastEvent.success
                /\ status.agentCount = Len(stateAgents)
                /\ status.onlineAgents =
                        Cardinality({i \in 1..Len(stateAgents) : OnlineOf(stateAgents[i])})
                /\ status.recentViolations = Min(10, Len(violations))
                /\ status.enabled = enabled
                /\ status.settings = settings
                /\ status.onlineAgents <= status.agentCount
                /\ status.recentViolations <= 10)

(* C19's case: the status was read with two agents listed, one of them      *)
(* online, and more than ten violations in the journal.                     *)
C19_Witness ==
    /\ lastEvent.op = "getStatus"
    /\ lastEvent.status.agentCount = 2
    /\ lastEvent.status.onlineAgents = 1
    /\ Len(violations) > 10
    /\ lastEvent.status.recentViolations = 10

NamesOf(processes) == {processes[i].name : i \in 1..Len(processes)}

(* C20: for every platform (win32, darwin, linux or unrecognized) the       *)
(* process set with games is at least as large as the set without, holds    *)
(* every process name of the set without, and the set without games is      *)
(* exactly one launcher descriptor.                                         *)
C20_CatalogMonotone ==
    (lastEvent.op = "startMonitoring" /\ lastEvent.result = "resolved") =>
        LET platform == PlatformOf(lastEvent.agent)
            stored == monitored[lastEvent.agent].processes
            withGames == "monitorGames" \notin DOMAIN lastEvent.config
                         \/ lastEvent.config.monitorGames
            included == IF withGames THEN stored ELSE getEpicProcesses(platform, TRUE)
            excluded == IF withGames THEN getEpicProcesses(platform, FALSE) ELSE stored
        IN  /\ Len(included) >= Len(excluded)
            /\ NamesOf(excluded) \subseteq NamesOf(included)
            /\ Len(excluded) = 1
            /\ excluded[1].type = "launcher"
            /\ Cardinality(NamesOf(included)) = Len(included)

(* C20's case: monitoring was started with games on an agent of an          *)
(* unrecognized platform: three descriptors, the launcher first.            *)
C20_Witness ==
    /\ lastEvent.op = "startMonitoring"
    /\ lastEvent.result = "resolved"
    /\ PlatformOf(lastEvent.agent) = "freebsd"
    /\ Len(monitored[lastEvent.agent].processes) = 3
    /\ monitored[lastEvent.agent].processes[1].type = "launcher"

-----------------------------------------------------------------------------
(* The win32 process set, as the source tables list it *)

Win32PolicyNames ==
    <<"EpicGamesLauncher.exe", "FortniteClient-Win64-Shipping.exe", "FortniteLauncher.exe",
      "RocketLeague.exe">>

Win32Alternatives ==
    <<<<"EpicGamesLauncher.exe", "EpicWebHelper.exe",
        "UnrealEngineLauncher-Win64-Shipping.exe">>,
      <<"FortniteClient-Win64-Shipping.exe", "FortniteLauncher.exe">>,
      <<"RocketLeague.exe">>>>

RecognizedPlatforms == {"win32", "darwin", "linux"}

(* C21: for a platform other than win32, darwin and linux both catalog      *)
(* lookups return the win32 process set, never an empty or undefined one:   *)
(* discovering (or listing, or monitoring) an agent of such a platform      *)
(* pushes the win32 policies.                                               *)
C21_CatalogTotal ==
    /\ \A i \in 1..Len(issued) :
          ( /\ lastEvent.op \in {"onLoad", "agentDiscovered"}
            /\ PlatformOf(issued[i].agent) \notin RecognizedPlatforms ) =>
                /\ i <= Len(Win32PolicyNames)
                /\ issued[i].processName = Win32PolicyNames[i]
                /\ Len(issued) = IF settings.monitorAllGames THEN Len(Win32PolicyNames) ELSE 1
    /\ \A a \in Agents :
          (PlatformOf(a) \notin RecognizedPlatforms /\ monitored[a] # Null) =>
              LET processes == monitored[a].processes
              IN  /\ processes # <<>>
                  /\ \A i \in 1..Len(processes) :
                        processes[i].alternatives = Win32Alternatives[i]

(* C21's case: an agent of the platform "freebsd" was discovered while all  *)
(* games are monitored, and the four win32 policies were created on it.     *)
C21_Witness ==
    /\ lastEvent.op = "agentDiscovered"
    /\ PlatformOf(lastEvent.agent) = "freebsd"
    /\ [i \in 1..Len(issued) |-> issued[i].processName] = Win32PolicyNames
    /\ \A name \in Range(Win32PolicyNames) : remote[lastEvent.agent][name].present

-----------------------------------------------------------------------------
(* C22: when startup fails because the agent registry is unavailable (no    *)
(* agent service, or listAgents rejecting), then after onLoad has returned  *)
(* or rejected enabled is false whatever the restored state said, no        *)
(* subscription and no IPC handler is registered, no policy was pushed, and *)
(* the failure was reported (a pluginError event or the rejection).         *)
C22_StartupNotHalfInitialized ==
    (lastEvent.op = "onLoad" /\ lastEvent.cause \in {"agentService", "listAgents"}) =>
        /\ ~enabled
        /\ ~subscribed
        /\ ~ipcReady
        /\ issued = <<>>
        /\ remote = NoPolicies
        /\ lastEvent.reported \/ lastEvent.result = "rejected"

PushFailed == \E i \in 1..Len(issued) : ~issued[i].ok

(* C23: one failed push in a configuration fan-out over several agents (at  *)
(* startup, or after updateSettings) is recovered locally: the operation    *)
(* completes normally (startup registers its subscriptions and handlers and *)
(* sets enabled, updateSettings returns its result) and every agent whose   *)
(* own pushes did not fail is configured in full.                           *)
C23_ConfigureFanoutIsolated ==
    (lastEvent.op \in {"onLoad", "updateSettings"} /\ PushFailed) =>
        /\ lastEvent.result \in {"resolved", "ok"}
        /\ lastEvent.op = "onLoad" => (enabled /\ subscribed /\ ipcReady)
        /\ \A a \in Range(stateAgents) :
              (\A i \in IssuedTo(a) : issued[i].ok) =>
                  \A k \in 1..Len(ConfigureCalls(a, settings)) :
                      \E i \in IssuedTo(a) :
                          issued[i].processName = ConfigureCalls(a, settings)[k].processName

-----------------------------------------------------------------------------
(* C24: after agentLost(agentId) the agent list holds no record of that id, *)
(* however often the agent had been discovered; the other records keep      *)
(* their order, every binding, the journal and the settings are unchanged;  *)
(* and getAgents and the agentCount of getStatus show the list without it.  *)
C24_LostAgentRemoved ==
    /\ [][lastEvent'.op = "agentLost" =>
            /\ lastEvent'.agent \notin Range(stateAgents')
            /\ stateAgents' = SelectSeq(stateAgents, LAMBDA x : x # lastEvent'.agent)
            /\ childOf' = childOf
            /\ violations' = violations
            /\ settings' = settings]_vars
    /\ [][(lastEvent.op = "agentLost" /\ lastEvent'.op = "getAgents") =>
            \A i \in 1..Len(lastEvent'.agents) : lastEvent'.agents[i].id # lastEvent.agent]_vars
    /\ [](lastEvent.op = "getAgents" =>
            /\ Len(lastEvent.agents) = Len(stateAgents)
            /\ \A i \in 1..Len(stateAgents) :
                  /\ lastEvent.agents[i].id = stateAgents[i]
                  /\ lastEvent.agents[i].childId = childOf[stateAgents[i]])
    /\ [](lastEvent.op = "getStatus" => lastEvent.status.agentCount = Len(stateAgents))

(* C24's case: of two listed and bound agents a1 was lost; the list holds   *)
(* a2 alone, and both records keep their bindings.                          *)
C24_Witness ==
    /\ lastEvent.op = "agentLost"
    /\ lastEvent.agent = "a1"
    /\ stateAgents = <<"a2">>
    /\ childOf["a1"] = "c2"
    /\ childOf["a2"] = "c1"
    /\ violations # <<>>

-----------------------------------------------------------------------------
(* The updates made on an agent's policies, by position in `issued` *)
UpdatesTo(a) == {i \in 1..Len(issued) : issued[i].op = "update" /\ issued[i].agent = a}

(* C25: the pushes two handlers in flight make to the same agent are        *)
(* serialized: between two pushes of one handler to an agent there is no    *)
(* push of the other handler to that agent.                                 *)
C25_PushesSerialized ==
    \A a \in Agents : \A i, j, k \in UpdatesTo(a) :
        (i < j /\ j < k /\ issued[i].handler = issued[k].handler) =>
            issued[j].handler = issued[i].handler

(* C26: when linkAgent(agent, entity) and a stateChange for the same entity *)
(* have both completed, every policy of the agent carries one and the same  *)
(* allowed value, computed from one of the two quota states: never a mix.   *)
C26_LastSnapshotWins ==
    LET link == pending["linkAgent"]
        change == pending["stateChange"]
    IN  ( /\ link.stage = "done"
          /\ change.stage = "done"
          /\ link.childId = change.childId ) =>
            \E q \in {link.state, change.state} :
                \A name \in PoliciesOf(link.agents[1]) :
                    remote[link.agents[1]][name].allowed = ExpectedAllowed(q)

-----------------------------------------------------------------------------
(* C27: an updateSettings call whose values all equal the current settings  *)
(* leaves every policy of every agent as it was and issues no createPolicy, *)
(* updatePolicy or deletePolicy.                                            *)
C27_SameSettingsNoPush ==
    [][( /\ lastEvent'.op = "updateSettings"
         /\ \A k \in DOMAIN lastEvent'.newSettings : lastEvent'.newSettings[k] = settings[k] ) =>
            /\ remote' = remote
            /\ issued' = <<>>]_vars

-----------------------------------------------------------------------------
(* The process names the catalog lists: launcher names and game names of    *)
(* every platform.                                                          *)
CatalogNames ==
    UNION {Range(getEpicProcessNames(p).launcher) \cup Range(getEpicProcessNames(p).games) :
           p \in RecognizedPlatforms}

(* C28: a violation whose process name is one the catalog lists for some    *)
(* platform is classified as a match and recorded in the journal, never     *)
(* dropped.                                                                 *)
C28_ClassifierCoversCatalog ==
    (lastEvent.op = "violation" /\ lastEvent.processName \in CatalogNames) =>
        /\ lastEvent.accepted
        /\ violations # <<>>
        /\ violations[Len(violations)].processName = lastEvent.processName

-----------------------------------------------------------------------------
(* C29: when linkAgent fails because the quota state of the entity cannot   *)
(* be fetched, the call has no side effect: the agent keeps the binding (or *)
(* the lack of one) it had before the call, and no policy push is issued.   *)
C29_FetchFailureNoEffect ==
    [][(LinkStep /\ lastEvent'.quotaFetched /\ lastEvent'.state = Null) =>
            /\ lastEvent'.result = "rejected"
            /\ childOf' = childOf
            /\ issued' = <<>>
            /\ remote' = remote]_vars

(* C30: a failed update push during linkAgent for a known agent is not      *)
(* escalated: linkAgent returns ok and the agent is bound to the entity;    *)
(* the failed push is not made again within the call, and afterwards only   *)
(* a triggering event (a stateChange or another linkAgent) pushes at all.   *)
C30_LinkPushFailureContained ==
    /\ [][(LinkStep /\ \E i \in 1..Len(issued') : ~issued'[i].ok) =>
            /\ lastEvent'.result = "ok"
            /\ childOf'[lastEvent'.agent] = lastEvent'.childId
            /\ ~issued'[Len(issued')].ok
            /\ \A i \in 1..(Len(issued') - 1) : issued'[i].ok]_vars
    /\ [][lastEvent'.op \notin {"onLoad", "linkAgent", "stateChange"} =>
            (remote' = remote /\ issued' = <<>>)]_vars

(* C30's case: the launcher update of a link to an entity with quota left   *)
(* failed: the call returned ok, the agent is bound, and its launcher       *)
(* policy is still denied.                                                  *)
C30_Witness ==
    /\ lastEvent.op = "linkAgent"
    /\ lastEvent.result = "ok"
    /\ lastEvent.state = Allowing
    /\ Len(issued) = 1
    /\ ~issued[1].ok
    /\ childOf[lastEvent.agent] = lastEvent.childId
    /\ ~remote[lastEvent.agent][LauncherNameOf(lastEvent.agent)].allowed

-----------------------------------------------------------------------------
(* C31: a stateChange for an entity pushes only to agents bound to that     *)
(* entity: an agent that is unbound, was unlinked earlier or is bound to    *)
(* another entity gets no push and keeps its policies as they were; the     *)
(* event only updates (it creates and deletes no policy), and it changes    *)
(* neither the agent list nor a binding, the journal or the settings.       *)
C31_StateChangeFrame ==
    [][lastEvent'.op = "stateChange" =>
            /\ \A i \in 1..Len(issued') :
                  /\ issued'[i].op = "update"
                  /\ childOf[issued'[i].agent] = lastEvent'.childId
            /\ \A a \in Agents : childOf[a] # lastEvent'.childId => remote'[a] = remote[a]
            /\ \A a \in Agents : \A name \in ProcessNames :
                  remote'[a][name].present = remote[a][name].present
            /\ stateAgents' = stateAgents
            /\ childOf' = childOf
            /\ violations' = violations
            /\ settings' = settings]_vars

(* C31's case: a1, allowed by an earlier link, has been unlinked, and a2 is  *)
(* bound to c1 when c1 is paused: a2 was pushed to and is denied, a1 got no *)
(* push and is still allowed.                                               *)
C31_Witness ==
    /\ lastEvent.op = "stateChange"
    /\ lastEvent.childId = "c1"
    /\ lastEvent.state = Pausing
    /\ childOf["a1"] = NoChild
    /\ childOf["a2"] = "c1"
    /\ issued # <<>>
    /\ \A i \in 1..Len(issued) : issued[i].agent = "a2"
    /\ ~remote["a2"][LauncherNameOf("a2")].allowed
    /\ remote["a1"][LauncherNameOf("a1")].allowed

-----------------------------------------------------------------------------
(* A quota state of an entity has just been observed: by a stateChange, or  *)
(* by the fetch of a linkAgent that completed.                              *)
QuotaObserved(event) ==
    \/ event.op = "stateChange"
    \/ event.op = "linkAgent" /\ event.result = "ok"

(* Every policy of every listed agent bound to the entity carries the flag  *)
(* of the quota state.                                                      *)
FlagsFollow(agentSeq, binding, store, child, q) ==
    \A a \in Range(agentSeq) :
        binding[a] = child =>
            \A name \in ProcessNames :
                store[a][name].present => store[a][name].allowed = ExpectedAllowed(q)

(* C32: in every quiescent state, every policy of every listed agent that   *)
(* is linked to an entity carries allowed = (!paused && quota > 0) of the   *)
(* quota state observed last for that entity: right after the state was     *)
(* observed, and still after a settings update or a discovery that follows. *)
C32_QuiescentConsistency ==
    /\ [](QuotaObserved(lastEvent) =>
            FlagsFollow(stateAgents, childOf, remote, lastEvent.childId, lastEvent.state))
    /\ [][(QuotaObserved(lastEvent) /\ ~QuotaObserved(lastEvent')) =>
            FlagsFollow(stateAgents', childOf', remote', lastEvent.childId,
                        lastEvent.state)]_vars

(* C33: updateSettings never changes the allowed flag of a policy that      *)
(* exists both before and after the call.                                   *)
C33_SettingsKeepAllowed ==
    [][lastEvent'.op = "updateSettings" =>
            \A a \in Agents : \A name \in ProcessNames :
                (remote[a][name].present /\ remote'[a][name].present) =>
                    remote'[a][name].allowed = remote[a][name].allowed]_vars

-----------------------------------------------------------------------------
(* C34: after onUnload enabled is false and the subsystem is shut down: an  *)
(* agentDiscovered, agentLost, violation or stateChange event delivered     *)
(* afterwards changes neither the agent list nor the journal and issues no  *)
(* policy push.                                                             *)
C34_UnloadShutsDown ==
    /\ [](phase = "unloaded" => ~enabled)
    /\ [][phase = "unloaded" =>
            /\ stateAgents' = stateAgents
            /\ violations' = violations
            /\ issued' = <<>>]_vars

PoliciesPresent(a) == {name \in ProcessNames : remote[a][name].present}

MonitoredNames(a) == IF monitored[a] = Null THEN {} ELSE NamesOf(monitored[a].processes)

StopCompleted == lastEvent.op = "stopMonitoring" /\ lastEvent.result = "resolved"

(* C35: after any sequence of startMonitoring and stopMonitoring calls, with *)
(* repeated starts under another monitorGames and with createPolicy or      *)
(* deletePolicy calls that fail part-way, the policies created on an agent  *)
(* and not deleted are those named in its monitoredProcesses entry; and a   *)
(* stopMonitoring that completed leaves no policy on the agent, for which   *)
(* getStats reports monitoring=false and processCount 0.                    *)
C35_BookkeepingInStep ==
    /\ \A a \in Agents : PoliciesPresent(a) = MonitoredNames(a)
    /\ StopCompleted =>
          /\ PoliciesPresent(lastEvent.agent) = {}
          /\ ~getStats(monitored, lastEvent.agent).monitoring
          /\ getStats(monitored, lastEvent.agent).processCount = 0

=============================================================================
